---- MODULE Spec2Model ----
(***************************************************************************)
(* Model of the multi-provider search orchestration of mcp-ddg-ts:         *)
(* WebSearchTool.execute (src/src/tools/search-tool.ts) with its static    *)
(* DuckDuckGo suspension state, and the RequestManager singleton           *)
(* (src/unnamed/part_005, utils/request-manager.ts) that paces every       *)
(* outbound request.                                                       *)
(*                                                                         *)
(* Time is Date.now() in milliseconds.  One step of the model is one run   *)
(* of JavaScript between two awaits: the code between two suspension       *)
(* points runs atomically on the single event-loop thread.                 *)
(***************************************************************************)
EXTENDS Integers, Sequences, FiniteSets, TLC

\* ------------------------------------------------------------------ bounds
NumProcs == 3            \* call slots (tool invocations in flight at the same time)
RaceMaxCalls == 3        \* calls that arrive together in SpecRace
ReshapeMaxCalls == 2     \* calls explored in SpecReshape
HandlerMaxCalls == 2     \* tool invocations explored in SpecHandler
ConcOverlap == 2         \* calls in flight at the same time in SpecConc and SpecGovConc
MaxCalls == 3            \* execute() invocations explored per behaviour
StartTime == 1000000     \* Date.now() when the model starts
MaxTime == 12000000      \* the clock is explored up to this value
GovMaxAdmits == 12       \* waitForRequest() calls explored by the governor spec
GovMaxSpan == 24000      \* the governor spec lets idle time pass in this span after start
ConcMaxCalls == 2        \* execute() calls explored with overlapping invocations
EnvMaxCalls == 2         \* execute() calls explored where the flag, the file or the tool varies
NumTools == 2            \* WebSearchTool instances
GovConcCalls == 3        \* waitForRequest() calls explored with concurrent callers

\* ------------------------------------------------------- program constants
SUSPENSION_DURATION == 20 * 60 * 1000
minDelay == 2000
maxRequestsPerMinute == 10
OneMinute == 60000
RateMargin == 1000
JitterRange == 3000
MaxAllowedResults == 50
DefaultMaxResults == 10

\* userAgents.searchAgents, each string by its browser, version and platform
searchAgents == << "Chrome/120.0.0.0 Windows NT 10.0", "Chrome/119.0.0.0 Windows NT 10.0",
                   "Chrome/120.0.0.0 Macintosh", "Firefox/120.0 Windows NT 10.0",
                   "Safari/605.1.15 Version/17.1 Macintosh" >>
NumSearchAgents == Len(searchAgents)

Procs == 1..NumProcs

Min(a, b) == IF a <= b THEN a ELSE b

\* Math.pow(2, n) for the n >= 0 that suspendDuckDuckGo passes
RECURSIVE Pow2(_)
Pow2(n) == IF n <= 0 THEN 1 ELSE 2 * Pow2(n - 1)

\* ---------------------------------------------------------------- inputs
Undefined == -1000       \* marks an argument the caller left out

\* query strings as sequences of characters
Queries == { <<>>, <<" ">>, <<"j", "s">> }
MaxResultsChoices == { Undefined, -1, 0, 2, 51 }

IsSpace(c) == c = " "

\* String.prototype.trim
RECURSIVE TrimLeft(_)
TrimLeft(s) == IF s = <<>> THEN s
               ELSE IF IsSpace(Head(s)) THEN TrimLeft(Tail(s)) ELSE s

RECURSIVE TrimRight(_)
TrimRight(s) == IF s = <<>> THEN s
                ELSE IF IsSpace(s[Len(s)]) THEN TrimRight(SubSeq(s, 1, Len(s) - 1)) ELSE s

trim(s) == TrimRight(TrimLeft(s))

\* const { query, maxResults = 10 } = args
maxResultsOf(a) == IF a.maxResults = Undefined THEN DefaultMaxResults ELSE a.maxResults

\* the two validation throws at the top of execute; "" when the arguments pass
ErrQuery == "Query parameter is required and cannot be empty"
ErrMax == "Maximum results cannot exceed 50"
ErrAll == "Search failed on all providers"

\* variant: the query is tested without trim()
validate_NoTrim(a) ==
  IF Len(a.query) = 0 THEN ErrQuery
  ELSE IF maxResultsOf(a) > MaxAllowedResults THEN ErrMax
  ELSE ""

validate(a) ==
  IF Len(a.query) = 0 \/ Len(trim(a.query)) = 0 THEN ErrQuery
  ELSE IF maxResultsOf(a) > MaxAllowedResults THEN ErrMax
  ELSE ""

\* ------------------------------------------------------ provider replies
\* status 0 stands for a fetch that rejects (network error, no HTTP status).
\* rows: one entry per .result element; 0 is a row without title or url,
\* a positive number identifies a row that yields a SearchResult.
NetworkError == 0
HttpErrors == { 403, 429, 500, 503 }

DDGReplies ==
  { [status |-> s, len |-> 0, rows |-> <<>>] : s \in HttpErrors \cup {NetworkError} }
  \cup { [status |-> 200, len |-> 300, rows |-> <<>>],
         [status |-> 200, len |-> 12000, rows |-> <<>>],
         [status |-> 200, len |-> 12000, rows |-> <<1, 0, 2, 3>>] }

BraveReplies ==
  { [status |-> s, snippet |-> <<>>, webResult |-> <<>>, result |-> <<>>] : s \in {NetworkError, 429} }
  \cup { [status |-> 200, snippet |-> <<>>, webResult |-> <<>>, result |-> <<>>],
         [status |-> 200, snippet |-> <<4, 0, 5, 6>>, webResult |-> <<>>, result |-> <<7>>],
         [status |-> 200, snippet |-> <<>>, webResult |-> <<>>, result |-> <<7>>] }

NoDDGReply == [status |-> -1, len |-> 0, rows |-> <<>>]
NoBraveReply == [status |-> -1, snippet |-> <<>>, webResult |-> <<>>, result |-> <<>>]

\* variant: only 5xx counts as a failed response
ok_Below500(reply) == reply.status >= 200 /\ reply.status <= 499

\* variant: a rejected fetch is not told apart from a 2xx response
ok_NoStatus(reply) == reply.status <= 299

\* response.ok
ok(reply) == reply.status >= 200 /\ reply.status <= 299

\* variant: the loop stops one row late
RECURSIVE eachRow_OneMore(_, _, _)
eachRow_OneMore(rows, maxResults, results) ==
  IF rows = <<>> THEN results
  ELSE IF Len(results) > maxResults THEN results
  ELSE IF Head(rows) = 0 THEN eachRow_OneMore(Tail(rows), maxResults, results)
  ELSE eachRow_OneMore(Tail(rows), maxResults, Append(results, Head(rows)))

\* $(selector).each(...) of both parsers: stop at maxResults, skip rows
\* without title/url, push the rest in document order
RECURSIVE eachRow(_, _, _)
eachRow(rows, maxResults, results) ==
  IF rows = <<>> THEN results
  ELSE IF Len(results) >= maxResults THEN results
  ELSE IF Head(rows) = 0 THEN eachRow(Tail(rows), maxResults, results)
  ELSE eachRow(Tail(rows), maxResults, Append(results, Head(rows)))

parseSearchResults(html, maxResults) == eachRow(html.rows, maxResults, <<>>)

\* the selector loop of parseBraveResults: [".snippet", ".web-result", ".result"]
parseBraveResults(html, maxResults) ==
  LET r1 == eachRow(html.snippet, maxResults, <<>>)
      r2 == IF Len(r1) > 0 THEN r1 ELSE eachRow(html.webResult, maxResults, r1)
      r3 == IF Len(r2) > 0 THEN r2 ELSE eachRow(html.result, maxResults, r2)
  IN r3

\* isLikelyRateLimited(query): "return true"
isLikelyRateLimited(q) == TRUE

\* -------------------------------------------------------- preferred sites
\* JSON values: type is "null", "number", "string", "array", "object" or
\* "undefined" (a property that is absent); s holds the characters of a
\* string; items holds the elements of an array and, for a site object, its
\* url and its keywords in this order
J(type, s, items) == [type |-> type, s |-> s, items |-> items]
Undef == J("undefined", <<>>, <<>>)
JNull == J("null", <<>>, <<>>)
JNum == J("number", <<>>, <<>>)
JStr(s) == J("string", s, <<>>)
JArr(items) == J("array", <<>>, items)
JObj(url, keywords) == J("object", <<>>, << url, keywords >>)

SiteJS(u) == JObj(JStr(<< u >>), JArr(<< JStr(<< "J", "S" >>) >>))

\* readFile + JSON.parse: error is the code or name of what they throw
\* ("" when both succeed), value is the parsed content
NoFile == [error |-> "ENOENT", value |-> Undef]
Files ==
  { NoFile,
    [error |-> "EACCES", value |-> Undef],
    [error |-> "SyntaxError", value |-> Undef],
    [error |-> "", value |-> SiteJS("a")],
    [error |-> "", value |-> JArr(<< SiteJS("a") >>)],
    [error |-> "", value |-> JArr(<< JObj(JStr(<< "a" >>), JArr(<< JStr(<< "p", "y" >>) >>)) >>)],
    [error |-> "", value |-> JArr(<< JNum, SiteJS("a"), JObj(Undef, Undef),
                                     JObj(JStr(<< "b" >>), JArr(<< JStr(<< "j" >>), JNum >>)),
                                     JObj(JStr(<< "c" >>), JStr(<< "j", "s" >>)) >>)],
    [error |-> "", value |-> JArr(<< SiteJS("a"), JNull >>)],
    [error |-> "", value |-> JArr(<< SiteJS("a"), SiteJS("b"), SiteJS("c"), SiteJS("d"),
                                     SiteJS("e") >>)] }

\* typeof v
typeof(v) == IF v.type \in {"null", "array", "object"} THEN "object" ELSE v.type

\* site.url (i = 1), site.keywords (i = 2) of a value that is not null
prop(v, i) == IF v.type = "object" THEN v.items[i] ELSE Undef

\* variant: every entry of the array is taken as a site
isValidSite_Any(site) == TRUE

\* isValidSite(site) for a site that is not null
isValidSite(site) ==
  /\ typeof(site) = "object"
  /\ typeof(prop(site, 1)) = "string"
  /\ prop(site, 2).type = "array"
  /\ \A i \in 1..Len(prop(site, 2).items) : typeof(prop(site, 2).items[i]) = "string"

\* loadSites(): what this.sites is after the try/catch.  typeof null is
\* "object", so isValidSite(null) reads null.url and throws a TypeError
\* inside the try.
loadSites(f) ==
  IF f.error # "" THEN <<>>
  ELSE IF f.value.type # "array" THEN <<>>
  ELSE IF \E i \in 1..Len(f.value.items) : f.value.items[i].type = "null" THEN <<>>
  ELSE SelectSeq(f.value.items, isValidSite)

toLowerCaseChar(c) ==
  CASE c = "J" -> "j" [] c = "S" -> "s" [] c = "P" -> "p" [] c = "Y" -> "y" [] OTHER -> c

toLowerCase(s) == [i \in 1..Len(s) |-> toLowerCaseChar(s[i])]

\* q.includes(k)
includes(q, k) == \E i \in 0..(Len(q) - Len(k)) : SubSeq(q, i + 1, i + Len(k)) = k

\* the for loop of getMatchingSites
RECURSIVE matchLoop(_, _, _)
matchLoop(ss, queryLower, matchingSites) ==
  IF ss = <<>> THEN matchingSites
  ELSE IF Len(matchingSites) >= 4 THEN matchingSites
  ELSE LET site == Head(ss)
           keywords == prop(site, 2).items
           hasMatch == \E i \in 1..Len(keywords) :
                          includes(queryLower, toLowerCase(keywords[i].s))
       IN matchLoop(Tail(ss), queryLower,
                    IF hasMatch THEN Append(matchingSites, prop(site, 1).s)
                    ELSE matchingSites)

getMatchingSites(ss, query) ==
  IF Len(ss) = 0 THEN <<>> ELSE matchLoop(ss, toLowerCase(query), <<>>)

\* matchingSites.map(site => `site:${site}`).join(' OR ')
RECURSIVE siteOperators(_)
siteOperators(m) ==
  IF m = <<>> THEN <<>>
  ELSE << "site:" >> \o Head(m) \o
       (IF Tail(m) = <<>> THEN <<>> ELSE << " OR " >> \o siteOperators(Tail(m)))

\* enhanceQuery(originalQuery) with this.sites = ss
enhanceQuery(ss, originalQuery) ==
  LET matchingSites == getMatchingSites(ss, originalQuery)
  IN IF Len(matchingSites) = 0 THEN originalQuery
     ELSE originalQuery \o << " (" >> \o siteOperators(matchingSites) \o << ")" >>

\* the characters of a string of the model, whose elements are single
\* characters and the literals of the enhanceQuery template
explode(tok) ==
  CASE tok = " (" -> << " ", "(" >>
    [] tok = "site:" -> << "s", "i", "t", "e", ":" >>
    [] tok = " OR " -> << " ", "O", "R", " " >>
    [] OTHER -> << tok >>

RECURSIVE chars(_)
chars(s) == IF s = <<>> THEN <<>> ELSE explode(Head(s)) \o chars(Tail(s))

\* s.replace(/\(site:/g, 'site:')
RECURSIVE replaceOpenSite(_)
replaceOpenSite(cs) ==
  IF cs = <<>> THEN <<>>
  ELSE IF Len(cs) >= 6 /\ SubSeq(cs, 1, 6) = << "(", "s", "i", "t", "e", ":" >>
       THEN << "s", "i", "t", "e", ":" >> \o replaceOpenSite(SubSeq(cs, 7, Len(cs)))
  ELSE << Head(cs) >> \o replaceOpenSite(Tail(cs))

\* s.replace(/\)/g, '')
RECURSIVE removeCloseParen(_)
removeCloseParen(cs) ==
  IF cs = <<>> THEN <<>>
  ELSE IF Head(cs) = ")" THEN removeCloseParen(Tail(cs))
  ELSE << Head(cs) >> \o removeCloseParen(Tail(cs))

\* searchQuery of searchBrave(query, maxResults)
braveSearchQuery(query) ==
  LET cs == chars(query)
  IN IF includes(cs, << "s", "i", "t", "e", ":" >>)
        \/ includes(cs, << "O", "R", " ", "s", "i", "t", "e", ":" >>)
     THEN removeCloseParen(replaceOpenSite(cs))
     ELSE cs

\* ------------------------------------------------------------------ state
VARIABLES
  now,                        \* Date.now()
  duckDuckGoSuspendedUntil,   \* WebSearchTool.duckDuckGoSuspendedUntil
  suspensionCount,            \* WebSearchTool.suspensionCount
  lastRequestTime,            \* RequestManager.lastRequestTime
  requestCount,               \* RequestManager.requestCount
  requestTimes,               \* RequestManager.requestTimes
  pc,                         \* where each call is suspended
  args,                       \* the arguments of each call
  frame,                      \* the locals of each call that live across an await
  result,                     \* what each call returned or threw
  hist,                       \* per call: what it observed and dispatched
  started,                    \* number of calls begun so far
  userAgentsSent,             \* the User-Agent of every request sent, in order
  debug,                      \* the --debug flag the tools were constructed with
  stderr,                     \* per call: it has written [DEBUG] lines to console.error
  file,                       \* preferred_sites.json in the working directory
  sites,                      \* PreferredSitesManager.sites
  loaded,                     \* PreferredSitesManager.loaded
  owner                       \* the tool instance whose call last suspended DuckDuckGo,
                              \* and the one whose call last recorded a request

vars == << now, duckDuckGoSuspendedUntil, suspensionCount, lastRequestTime,
           requestCount, requestTimes, pc, args, frame, result, hist, started,
           userAgentsSent, debug, stderr, file, sites, loaded, owner >>

suspension == << duckDuckGoSuspendedUntil, suspensionCount >>
ledger == << lastRequestTime, requestCount, requestTimes >>
io == << debug, stderr >>
preferred == << file, sites, loaded >>

NoArgs == [query |-> <<>>, maxResults |-> Undefined]
NoFrame == [provider |-> "none", isDuckDuckGoSuspended |-> FALSE, wnow |-> 0, wake |-> 0,
            enhancedQuery |-> <<>>]
NoResult == [kind |-> "none", searchProvider |-> "", totalResults |-> 0,
             results |-> <<>>, message |-> ""]
NoHist == [checked |-> FALSE, checkNow |-> 0, checkUntil |-> 0,
           ddgRequests |-> 0, braveRequests |-> 0, admits |-> 0,
           agent |-> "", countBefore |-> 0,
           ddgReply |-> NoDDGReply, braveReply |-> NoBraveReply,
           log |-> <<>>, tool |-> 0,
           waitA |-> 0, waitB |-> 0, admitNo |-> 0, searchQuery |-> <<>>]

\* ten requests at the minimum spacing, the last of them minDelay ago
BurstTimes == [i \in 1..maxRequestsPerMinute |->
                 StartTime - minDelay * (maxRequestsPerMinute + 1 - i)]

\* the process right after start-up, or after a burst of ten searches that
\* DuckDuckGo answered
InitState ==
  /\ now = StartTime
  /\ duckDuckGoSuspendedUntil = 0
  /\ suspensionCount = 0
  /\ \/ /\ lastRequestTime = 0
        /\ requestCount = 0
        /\ requestTimes = <<>>
     \/ /\ lastRequestTime = BurstTimes[maxRequestsPerMinute]
        /\ requestCount = maxRequestsPerMinute
        /\ requestTimes = BurstTimes
  /\ pc = [p \in Procs |-> "idle"]
  /\ args = [p \in Procs |-> NoArgs]
  /\ frame = [p \in Procs |-> NoFrame]
  /\ result = [p \in Procs |-> NoResult]
  /\ hist = [p \in Procs |-> NoHist]
  /\ started = 0
  /\ userAgentsSent = <<>>
  /\ stderr = [p \in Procs |-> FALSE]
  /\ sites = <<>>
  /\ loaded = FALSE
  /\ owner = [suspension |-> 0, ledger |-> IF requestCount = 0 THEN 0 ELSE 1]

\* the server was started without --debug in a directory without
\* preferred_sites.json
Init == InitState /\ debug = FALSE /\ file = NoFile

\* the server was started with or without --debug
InitDebug == InitState /\ debug \in BOOLEAN /\ file = NoFile

\* the server was started in a directory with any of the files
InitEnhance == InitState /\ debug = FALSE /\ file \in Files

\* the step of call p wrote the static suspension fields or the ledger of
\* RequestManager.instance: owner remembers on which tool p was called (0: a
\* direct caller of the request manager)
trackOwner(p) ==
  owner' = [suspension |-> IF duckDuckGoSuspendedUntil' # duckDuckGoSuspendedUntil
                           THEN hist'[p].tool ELSE owner.suspension,
            ledger |-> IF requestCount' # requestCount
                       THEN hist'[p].tool ELSE owner.ledger]

\* "if (this.debug) { console.error(...) }" in a step of call p, run with
\* the flag d: wrote tells whether the step reaches such a block.  The
\* output belongs to the run whose flag is d.
consoleError(p, d, wrote) ==
  IF d = debug
  THEN stderr' = [stderr EXCEPT ![p] = @ \/ (d /\ wrote)]
  ELSE TRUE

\* ------------------------------------------------------- suspension logic
\* variant: the multiplier is capped at 8 instead of 6
suspendDuckDuckGo_Cap8(s, t) ==
  LET c == s.count + 1
      backoffMultiplier == Min(Pow2(c - 1), 8)
  IN [count |-> c, until |-> t + SUSPENSION_DURATION * backoffMultiplier]

\* variant: every suspension lasts the base duration, whatever the count
suspendDuckDuckGo_Flat(s, t) ==
  [count |-> s.count + 1, until |-> t + SUSPENSION_DURATION]

\* suspendDuckDuckGo(), on the pair of statics, at Date.now() = t
suspendDuckDuckGo(s, t) ==
  LET c == s.count + 1
      backoffMultiplier == Min(Pow2(c - 1), 6)
      suspensionDuration == SUSPENSION_DURATION * backoffMultiplier
  IN [count |-> c, until |-> t + suspensionDuration]

SuspensionState == [count |-> suspensionCount, until |-> duckDuckGoSuspendedUntil]

\* variant: the comparison is off by one base duration
isSuspendedAt_Late(t, until) == t + SUSPENSION_DURATION < until

\* variant: the end instant itself still counts as suspended
isSuspendedAt_Inclusive(t, until) == t <= until

\* const isDuckDuckGoSuspended = now < WebSearchTool.duckDuckGoSuspendedUntil
isSuspendedAt(t, until) == t < until

\* ------------------------------------------------------- request manager
\* the while loop that shifts entries older than one minute
RECURSIVE cleanOld(_, _)
cleanOld(times, oneMinuteAgo) ==
  IF Len(times) > 0 /\ times[1] < oneMinuteAgo
  THEN cleanOld(Tail(times), oneMinuteAgo) ELSE times

\* waitTime of the rate-limit branch
rateWaitTime(oneMinuteAgo, oldestRequest) == oneMinuteAgo - oldestRequest + RateMargin

\* sleep(ms): setTimeout with a delay below 1 ms fires after 1 ms
sleepMs(ms) == IF ms < 1 THEN 1 ELSE ms

\* Math.random() * 3000, the values explored
JitterChoices == { 0, JitterRange - 1 }

\* variant: the request is sent as soon as it is admitted, with no jitter
record_NoJitter(p, f, h, times) ==
  /\ lastRequestTime' = now
  /\ requestTimes' = Append(times, now)
  /\ requestCount' = requestCount + 1
  /\ IF f.provider = "none"
     THEN /\ pc' = [pc EXCEPT ![p] = "idle"]
          /\ frame' = [frame EXCEPT ![p] = NoFrame]
          /\ hist' = [hist EXCEPT ![p] = [h EXCEPT !.admits = @ + 1]]
     ELSE /\ pc' = [pc EXCEPT ![p] = "fetch"]
          /\ frame' = [frame EXCEPT ![p] = f]
          /\ hist' = [hist EXCEPT ![p] =
                [h EXCEPT !.admits = @ + 1,
                          !.log = @ \o << "admit", "fetch" >>,
                          !.agent = searchAgents[((requestCount + 1) % NumSearchAgents) + 1],
                          !.ddgRequests = IF f.provider = "ddg" THEN @ + 1 ELSE @,
                          !.braveRequests = IF f.provider = "brave" THEN @ + 1 ELSE @]]

\* "Record this request", then back in the caller: a search goes on to
\* addRandomDelay, a direct caller of waitForRequest is finished
record(p, f, h, times) ==
  /\ lastRequestTime' = now
  /\ requestTimes' = Append(times, now)
  /\ requestCount' = requestCount + 1
  /\ hist' = [hist EXCEPT ![p] = [h EXCEPT !.admits = @ + 1,
                                            !.admitNo = IF f.provider = "none" THEN @
                                                       ELSE requestCount + 1,
                                            !.log = Append(@, "admit")]]
  /\ IF f.provider = "none"
     THEN /\ pc' = [pc EXCEPT ![p] = "idle"]
          /\ frame' = [frame EXCEPT ![p] = NoFrame]
     ELSE \E j \in JitterChoices :
          /\ pc' = [pc EXCEPT ![p] = "jitter"]
          /\ frame' = [frame EXCEPT ![p] = [f EXCEPT !.wake = now + sleepMs(j)]]

\* variant: the minimum-delay branch is missing
minDelayCheck_NoWait(p, f, h, times) == record(p, f, h, times)

\* "Ensure minimum delay between requests": f.wnow is the now read on entry
minDelayCheck(p, f, h, times) ==
  LET timeSinceLastRequest == f.wnow - lastRequestTime
  IN IF timeSinceLastRequest < minDelay
     THEN /\ requestTimes' = times
          /\ UNCHANGED << lastRequestTime, requestCount >>
          /\ pc' = [pc EXCEPT ![p] = "minWait"]
          /\ frame' = [frame EXCEPT ![p] =
                 [f EXCEPT !.wake = now + sleepMs(minDelay - timeSinceLastRequest)]]
          /\ hist' = [hist EXCEPT ![p] =
                 [h EXCEPT !.waitB = sleepMs(minDelay - timeSinceLastRequest)]]
     ELSE record(p, f, h, times)

\* variant: the minimum delay is looked at first; a caller that has to wait
\* for it is not held back by the rate limit
waitForRequest_SpacingFirst(p, f, h) ==
  LET oneMinuteAgo == now - OneMinute
      cleaned == cleanOld(requestTimes, oneMinuteAgo)
      g == [f EXCEPT !.wnow = now]
      k == [h EXCEPT !.waitA = 0, !.waitB = 0]
  IN IF now - lastRequestTime < minDelay
     THEN minDelayCheck(p, g, k, cleaned)
     ELSE IF Len(cleaned) >= maxRequestsPerMinute
     THEN /\ requestTimes' = cleaned
          /\ UNCHANGED << lastRequestTime, requestCount >>
          /\ pc' = [pc EXCEPT ![p] = "rateWait"]
          /\ frame' = [frame EXCEPT ![p] =
                 [g EXCEPT !.wake = now + sleepMs(rateWaitTime(oneMinuteAgo, cleaned[1]))]]
          /\ hist' = [hist EXCEPT ![p] =
                 [k EXCEPT !.waitA = sleepMs(rateWaitTime(oneMinuteAgo, cleaned[1]))]]
     ELSE minDelayCheck(p, g, k, cleaned)

\* waitForRequest() from its first line to its first await (or to its end);
\* waitA and waitB note the two sleeps of the call
waitForRequest(p, f, h) ==
  LET oneMinuteAgo == now - OneMinute
      cleaned == cleanOld(requestTimes, oneMinuteAgo)
      g == [f EXCEPT !.wnow = now]
      k == [h EXCEPT !.waitA = 0, !.waitB = 0]
  IN IF Len(cleaned) >= maxRequestsPerMinute
     THEN /\ requestTimes' = cleaned
          /\ UNCHANGED << lastRequestTime, requestCount >>
          /\ pc' = [pc EXCEPT ![p] = "rateWait"]
          /\ frame' = [frame EXCEPT ![p] =
                 [g EXCEPT !.wake = now + sleepMs(rateWaitTime(oneMinuteAgo, cleaned[1]))]]
          /\ hist' = [hist EXCEPT ![p] =
                 [k EXCEPT !.waitA = sleepMs(rateWaitTime(oneMinuteAgo, cleaned[1]))]]
     ELSE minDelayCheck(p, g, k, cleaned)

\* the rate-limit sleep is over
WakeRate(p, d) ==
  /\ pc[p] = "rateWait"
  /\ now >= frame[p].wake
  /\ minDelayCheck(p, frame[p], hist[p], requestTimes)
  /\ consoleError(p, d, TRUE)
  /\ UNCHANGED << now, suspension, args, result, started, userAgentsSent, debug, preferred >>
  /\ trackOwner(p)

\* variant: the callback runs only once its due time has passed
WakeMin_Late(p, d) ==
  /\ pc[p] = "minWait"
  /\ now > frame[p].wake
  /\ record(p, frame[p], hist[p], requestTimes)
  /\ consoleError(p, d, TRUE)
  /\ UNCHANGED << now, suspension, args, result, started, userAgentsSent, debug, preferred >>
  /\ trackOwner(p)

\* the minimum-delay sleep is over
WakeMin(p, d) ==
  /\ pc[p] = "minWait"
  /\ now >= frame[p].wake
  /\ record(p, frame[p], hist[p], requestTimes)
  /\ consoleError(p, d, TRUE)
  /\ UNCHANGED << now, suspension, args, result, started, userAgentsSent, debug, preferred >>
  /\ trackOwner(p)

\* variant: the last entry of the list is never used
getUserAgent_Mod4 == searchAgents[(requestCount % (Len(searchAgents) - 1)) + 1]

\* getUserAgent()
getUserAgent == searchAgents[(requestCount % Len(searchAgents)) + 1]

\* addRandomDelay is over: fetch(searchUrl, headers) is called
Dispatch(p) ==
  /\ pc[p] = "jitter"
  /\ now >= frame[p].wake
  /\ pc' = [pc EXCEPT ![p] = "fetch"]
  /\ hist' = [hist EXCEPT ![p] =
        [@ EXCEPT !.agent = getUserAgent,
                  !.log = @ \o << "jitter", "fetch" >>,
                  !.ddgRequests = IF frame[p].provider = "ddg" THEN @ + 1 ELSE @,
                  !.braveRequests = IF frame[p].provider = "brave" THEN @ + 1 ELSE @,
                  !.searchQuery = IF frame[p].provider = "brave"
                                  THEN braveSearchQuery(frame[p].enhancedQuery) ELSE @]]
  /\ userAgentsSent' = Append(userAgentsSent, getUserAgent)
  /\ UNCHANGED << now, suspension, ledger, args, frame, result, started, io, preferred, owner >>

\* ------------------------------------------------------------- execute
\* variant: a search that found nothing is reported as a failure
Response_EmptyFails(provider, results) ==
  IF results = <<>>
  THEN [kind |-> "error", searchProvider |-> "", totalResults |-> 0, results |-> <<>>,
        message |-> "Search failed on all providers"]
  ELSE [kind |-> "response", searchProvider |-> provider, totalResults |-> Len(results),
        results |-> results, message |-> ""]

\* searchResponse = { query, totalResults: results.length, searchProvider, results }
Response(provider, results) ==
  [kind |-> "response", searchProvider |-> provider, totalResults |-> Len(results),
   results |-> results, message |-> ""]

\* variant: an error ends the call with an empty response, not a throw
Failure_EmptyResponse(msg) ==
  [kind |-> "response", searchProvider |-> "Brave", totalResults |-> 0,
   results |-> <<>>, message |-> ""]

\* throw new Error(message)
Failure(msg) ==
  [kind |-> "error", searchProvider |-> "", totalResults |-> 0, results |-> <<>>,
   message |-> msg]

\* execute(args) up to "await this.preferredSites.enhanceQuery(query)"
StartFrom(p, t, queries) ==
  /\ pc[p] = "idle"
  /\ \A q \in Procs : q < p => pc[q] # "idle"    \* the lowest free slot
  /\ started < MaxCalls
  /\ \E q \in queries, m \in MaxResultsChoices :
       LET a == [query |-> q, maxResults |-> m]
       IN /\ args' = [args EXCEPT ![p] = a]
          /\ IF validate(a) # ""
             THEN /\ pc' = [pc EXCEPT ![p] = "failed"]
                  /\ result' = [result EXCEPT ![p] = Failure(validate(a))]
             ELSE /\ pc' = [pc EXCEPT ![p] = "enhance"]
                  /\ result' = [result EXCEPT ![p] = NoResult]
  /\ started' = started + 1
  /\ hist' = [hist EXCEPT ![p] = [NoHist EXCEPT !.tool = t]]
  /\ frame' = [frame EXCEPT ![p] = NoFrame]
  /\ UNCHANGED << now, suspension, ledger, userAgentsSent, io, preferred, owner >>

\* the call arrives on tool t with one of the queries explored
StartOn(p, t) == StartFrom(p, t, Queries)

\* index.ts constructs one WebSearchTool; every tool call runs on it
Start(p) == StartOn(p, 1)

\* variant: with --debug the suspension is not consulted
CheckSuspension_DebugSkipsCheck(p, d) ==
  /\ pc[p] = "enhance"
  /\ sites' = IF loaded THEN sites ELSE loadSites(file)
  /\ loaded' = TRUE
  /\ LET isDuckDuckGoSuspended == ~d /\ isSuspendedAt(now, duckDuckGoSuspendedUntil)
         f == [frame[p] EXCEPT !.isDuckDuckGoSuspended = isDuckDuckGoSuspended,
                               !.provider = IF isDuckDuckGoSuspended THEN "brave" ELSE "ddg",
                               !.enhancedQuery = enhanceQuery(sites', args[p].query)]
         h == [hist[p] EXCEPT !.checked = TRUE, !.checkNow = now,
                              !.checkUntil = duckDuckGoSuspendedUntil]
     IN waitForRequest(p, f, h)
  /\ consoleError(p, d, TRUE)
  /\ UNCHANGED << now, suspension, args, result, started, userAgentsSent, debug, file >>
  /\ trackOwner(p)

\* variant: the suspension fields are instance fields; a tool knows only of
\* the suspensions its own calls caused
CheckSuspension_OwnSuspensionOnly(p, d) ==
  /\ pc[p] = "enhance"
  /\ sites' = IF loaded THEN sites ELSE loadSites(file)
  /\ loaded' = TRUE
  /\ LET isDuckDuckGoSuspended == /\ isSuspendedAt(now, duckDuckGoSuspendedUntil)
                                  /\ owner.suspension = hist[p].tool
         f == [frame[p] EXCEPT !.isDuckDuckGoSuspended = isDuckDuckGoSuspended,
                               !.provider = IF isDuckDuckGoSuspended THEN "brave" ELSE "ddg",
                               !.enhancedQuery = enhanceQuery(sites', args[p].query)]
         h == [hist[p] EXCEPT !.checked = TRUE, !.checkNow = now,
                              !.checkUntil = duckDuckGoSuspendedUntil]
     IN waitForRequest(p, f, h)
  /\ consoleError(p, d, TRUE)
  /\ UNCHANGED << now, suspension, args, result, started, userAgentsSent, debug, file >>
  /\ trackOwner(p)

\* execute() from the result of enhanceQuery (loadSites on the first call):
\* the suspension check, then searchDuckDuckGo or searchBrave up to the
\* first await of waitForRequest()
CheckSuspension(p, d) ==
  /\ pc[p] = "enhance"
  /\ sites' = IF loaded THEN sites ELSE loadSites(file)
  /\ loaded' = TRUE
  /\ LET isDuckDuckGoSuspended == isSuspendedAt(now, duckDuckGoSuspendedUntil)
         f == [frame[p] EXCEPT !.isDuckDuckGoSuspended = isDuckDuckGoSuspended,
                               !.provider = IF isDuckDuckGoSuspended THEN "brave" ELSE "ddg",
                               !.enhancedQuery = enhanceQuery(sites', args[p].query)]
         h == [hist[p] EXCEPT !.checked = TRUE, !.checkNow = now,
                              !.checkUntil = duckDuckGoSuspendedUntil]
     IN waitForRequest(p, f, h)
  /\ consoleError(p, d, TRUE)
  /\ UNCHANGED << now, suspension, args, result, started, userAgentsSent, debug, file >>
  /\ trackOwner(p)

\* variant: no inner catch; the DuckDuckGo error reaches the outer catch
fallbackToBrave_Rethrow(p, s, h) ==
  /\ suspensionCount' = s.count
  /\ duckDuckGoSuspendedUntil' = s.until
  /\ result' = [result EXCEPT ![p] = Failure(ErrAll)]
  /\ pc' = [pc EXCEPT ![p] = "failed"]
  /\ hist' = [hist EXCEPT ![p] = h]
  /\ UNCHANGED << ledger, frame >>

\* variant: the first failure of DuckDuckGo is answered with a second attempt
fallbackToBrave_RetryPrimary(p, s, h) ==
  /\ suspensionCount' = s.count
  /\ duckDuckGoSuspendedUntil' = s.until
  /\ waitForRequest(p, [frame[p] EXCEPT !.provider =
                          IF h.ddgRequests < 2 THEN "ddg" ELSE "brave"], h)
  /\ UNCHANGED << result >>

\* the fallback of the catch (ddgError) block, with the statics as s
fallbackToBrave(p, s, h) ==
  /\ suspensionCount' = s.count
  /\ duckDuckGoSuspendedUntil' = s.until
  /\ waitForRequest(p, [frame[p] EXCEPT !.provider = "brave"], h)
  /\ UNCHANGED << result >>

\* variant: a success lowers the count by one
resetSuspensionCount_Decrement(c) == IF c > 0 THEN c - 1 ELSE c

\* variant: both searchBrave branches use the same label
braveLabel_Same(isDuckDuckGoSuspended) == "Brave (DDG suspended)"

\* "Reset suspension count on successful DuckDuckGo search"
resetSuspensionCount(c) == IF c > 0 THEN 0 ELSE c

\* variant: the two searchBrave branches carry each other's label
braveLabel_Swapped(isDuckDuckGoSuspended) ==
  IF isDuckDuckGoSuspended THEN "Brave" ELSE "Brave (DDG suspended)"

\* searchProvider of the two searchBrave branches of execute
braveLabel(isDuckDuckGoSuspended) ==
  IF isDuckDuckGoSuspended THEN "Brave (DDG suspended)" ELSE "Brave"

\* the fetch of searchDuckDuckGo settles; execute runs on to its next await
ReplyDDG(p, d) ==
  /\ pc[p] = "fetch"
  /\ frame[p].provider = "ddg"
  /\ \E reply \in DDGReplies :
       LET h == [hist[p] EXCEPT !.ddgReply = reply, !.countBefore = suspensionCount]
           results == parseSearchResults(reply, maxResultsOf(args[p]))
       IN IF ~ok(reply)
          THEN \* searchDuckDuckGo throws; catch (ddgError)
               fallbackToBrave(p, suspendDuckDuckGo(SuspensionState, now), h)
          ELSE IF Len(results) = 0 /\ isLikelyRateLimited(args[p].query)
          THEN \* suspendDuckDuckGo(); throw; catch (ddgError): suspendDuckDuckGo()
               fallbackToBrave(p,
                  suspendDuckDuckGo(suspendDuckDuckGo(SuspensionState, now), now), h)
          ELSE /\ result' = [result EXCEPT ![p] = Response("DuckDuckGo", results)]
               /\ suspensionCount' = resetSuspensionCount(suspensionCount)
               /\ pc' = [pc EXCEPT ![p] = "done"]
               /\ hist' = [hist EXCEPT ![p] = h]
               /\ UNCHANGED << duckDuckGoSuspendedUntil, ledger, frame >>
  /\ consoleError(p, d, pc'[p] # "done" \/ suspensionCount > 0)
  /\ UNCHANGED << now, args, started, userAgentsSent, debug, preferred >>
  /\ trackOwner(p)

\* variant: a failed fallback takes the suspension back
ReplyBrave_Rollback(p, d) ==
  /\ pc[p] = "fetch"
  /\ frame[p].provider = "brave"
  /\ \E reply \in BraveReplies :
       /\ hist' = [hist EXCEPT ![p] = [@ EXCEPT !.braveReply = reply]]
       /\ IF ~ok(reply)
          THEN /\ result' = [result EXCEPT ![p] = Failure(ErrAll)]
               /\ pc' = [pc EXCEPT ![p] = "failed"]
               /\ IF frame[p].isDuckDuckGoSuspended
                  THEN UNCHANGED suspension
                  ELSE /\ suspensionCount' = hist[p].countBefore
                       /\ duckDuckGoSuspendedUntil' = now
          ELSE /\ result' = [result EXCEPT ![p] =
                    Response(braveLabel(frame[p].isDuckDuckGoSuspended),
                             parseBraveResults(reply, maxResultsOf(args[p])))]
               /\ pc' = [pc EXCEPT ![p] = "done"]
               /\ UNCHANGED suspension
  /\ consoleError(p, d, hist'[p].braveReply.status # NetworkError)
  /\ UNCHANGED << now, ledger, args, frame, started, userAgentsSent, debug, preferred, owner >>

\* the fetch of searchBrave settles
ReplyBrave(p, d) ==
  /\ pc[p] = "fetch"
  /\ frame[p].provider = "brave"
  /\ \E reply \in BraveReplies :
       /\ hist' = [hist EXCEPT ![p] = [@ EXCEPT !.braveReply = reply]]
       /\ IF ~ok(reply)
          THEN \* searchBrave throws; the outer catch rethrows
               /\ result' = [result EXCEPT ![p] = Failure(ErrAll)]
               /\ pc' = [pc EXCEPT ![p] = "failed"]
          ELSE /\ result' = [result EXCEPT ![p] =
                    Response(braveLabel(frame[p].isDuckDuckGoSuspended),
                             parseBraveResults(reply, maxResultsOf(args[p])))]
               /\ pc' = [pc EXCEPT ![p] = "done"]
  /\ consoleError(p, d, hist'[p].braveReply.status # NetworkError)
  /\ UNCHANGED << now, suspension, ledger, args, frame, started, userAgentsSent, debug, preferred, owner >>

\* the caller has taken the result of a finished call
Return(p) ==
  /\ pc[p] \in {"done", "failed"}
  /\ pc' = [pc EXCEPT ![p] = "idle"]
  /\ args' = [args EXCEPT ![p] = NoArgs]
  /\ frame' = [frame EXCEPT ![p] = NoFrame]
  /\ result' = [result EXCEPT ![p] = NoResult]
  /\ hist' = [hist EXCEPT ![p] = NoHist]
  /\ stderr' = [stderr EXCEPT ![p] = FALSE]
  /\ UNCHANGED << now, suspension, ledger, started, userAgentsSent, debug, preferred, owner >>

\* ------------------------------------------------------------------ time
Sleeping == { p \in Procs : pc[p] \in {"rateWait", "minWait", "jitter"} /\ frame[p].wake > now }

\* the clock reaches the earliest pending timer
TickTimer ==
  /\ Sleeping # {}
  /\ \E p \in Sleeping :
       /\ \A q \in Sleeping : frame[p].wake <= frame[q].wake
       /\ now' = frame[p].wake
  /\ UNCHANGED << suspension, ledger, pc, args, frame, result, hist, started, userAgentsSent, io, preferred, owner >>

\* no call is in flight
Quiet == \A p \in Procs : pc[p] = "idle"

\* between two calls the clock reaches the end of the suspension
TickExpire ==
  /\ Quiet
  /\ now < duckDuckGoSuspendedUntil
  /\ duckDuckGoSuspendedUntil <= MaxTime
  /\ now' = duckDuckGoSuspendedUntil
  /\ UNCHANGED << suspension, ledger, pc, args, frame, result, hist, started, userAgentsSent, io, preferred, owner >>

\* one tool invocation at a time
StartSeq(p) == Quiet /\ Start(p)

Next ==
  \/ \E p \in Procs : StartSeq(p)
  \/ \E p \in Procs : CheckSuspension(p, debug)
  \/ \E p \in Procs : WakeRate(p, debug)
  \/ \E p \in Procs : WakeMin(p, debug)
  \/ \E p \in Procs : Dispatch(p)
  \/ \E p \in Procs : ReplyDDG(p, debug)
  \/ \E p \in Procs : ReplyBrave(p, debug)
  \/ \E p \in Procs : Return(p)
  \/ TickTimer
  \/ TickExpire

Spec == Init /\ [][Next]_vars

\* the event loop runs every timer that is due and every continuation that
\* is ready; nothing makes a provider answer: fetch() of node-fetch is called
\* without a signal or timeout option, so its promise may stay pending
EventLoop ==
  /\ WF_vars(TickTimer)
  /\ \A p \in Procs : /\ WF_vars(CheckSuspension(p, debug))
                       /\ WF_vars(WakeRate(p, debug))
                       /\ WF_vars(WakeMin(p, debug))
                       /\ WF_vars(Dispatch(p))
                       /\ WF_vars(Return(p))

SpecLive == Init /\ [][Next]_vars /\ EventLoop

\* ------------------------------------------- the request manager on its own
\* a caller awaits requestManager.waitForRequest() directly, one at a time
InitGov ==
  /\ Init
  /\ requestCount = 0

GovCall(p, d) ==
  /\ Quiet
  /\ \A q \in Procs : q < p => pc[q] # "idle"    \* the lowest free slot
  /\ requestCount < GovMaxAdmits
  /\ waitForRequest(p, NoFrame, NoHist)
  /\ consoleError(p, d, TRUE)
  /\ UNCHANGED << now, suspension, args, result, started, userAgentsSent, debug, preferred >>
  /\ trackOwner(p)

GovSteps == { 5000, OneMinute + 1000 }

GovTick ==
  /\ Quiet
  /\ \E d \in GovSteps :
       /\ now < StartTime + GovMaxSpan
       /\ now' = now + d
  /\ UNCHANGED << suspension, ledger, pc, args, frame, result, hist, started, userAgentsSent, io, preferred, owner >>

NextGov ==
  \/ \E p \in Procs : GovCall(p, debug)
  \/ \E p \in Procs : WakeRate(p, debug)
  \/ \E p \in Procs : WakeMin(p, debug)
  \/ TickTimer
  \/ GovTick

SpecGov == InitGov /\ [][NextGov]_vars

\* ------------------------------------------- overlapping tool invocations
\* the server awaits each handler on its own: a second execute() may start
\* while the first one is at an await
StartConc(p) ==
  /\ started < ConcMaxCalls
  /\ Cardinality({ q \in Procs : pc[q] # "idle" }) < ConcOverlap
  /\ Start(p)
  /\ args'[p] = [query |-> << "j", "s" >>, maxResults |-> Undefined]

\* the providers answer with an HTTP error or with a page of results
ConcDDGReplies == { r \in DDGReplies : r.status = 429 \/ r.rows # <<>> }
ConcBraveReplies == { r \in BraveReplies : r.status = 429 \/ r.snippet # <<>> }

ReplyDDGConc(p, d) == ReplyDDG(p, d) /\ hist'[p].ddgReply \in ConcDDGReplies

ReplyBraveConc(p, d) == ReplyBrave(p, d) /\ hist'[p].braveReply \in ConcBraveReplies

\* a fresh process: with 2 * ConcMaxCalls requests at most the ledger stays
\* below maxRequestsPerMinute and the rate-limit sleep is never entered
InitConc == Init /\ requestCount = 0

NextConc ==
  \/ \E p \in Procs : StartConc(p)
  \/ \E p \in Procs : CheckSuspension(p, debug)
  \/ \E p \in Procs : WakeMin(p, debug)
  \/ \E p \in Procs : Dispatch(p)
  \/ \E p \in Procs : ReplyDDGConc(p, debug)
  \/ \E p \in Procs : ReplyBraveConc(p, debug)
  \/ \E p \in Procs : Return(p)
  \/ TickTimer
  \/ TickExpire

SpecConc == InitConc /\ [][NextConc]_vars

\* several callers may be inside waitForRequest() at the same time
GovCallConc(p, d) ==
  /\ pc[p] = "idle"
  /\ \A q \in Procs : q < p => pc[q] # "idle"    \* the lowest free slot
  /\ started < GovConcCalls
  /\ Cardinality({ q \in Procs : pc[q] # "idle" }) < ConcOverlap
  /\ started' = started + 1
  /\ waitForRequest(p, NoFrame, NoHist)
  /\ consoleError(p, d, TRUE)
  /\ UNCHANGED << now, suspension, args, result, userAgentsSent, debug, preferred >>
  /\ trackOwner(p)

NextGovConc ==
  \/ \E p \in Procs : GovCallConc(p, debug)
  \/ \E p \in Procs : WakeRate(p, debug)
  \/ \E p \in Procs : WakeMin(p, debug)
  \/ TickTimer
  \/ GovTick

SpecGovConc == Init /\ [][NextGovConc]_vars

\* every timer of sleep() that is due fires and its continuation runs
GovEventLoop ==
  /\ WF_vars(TickTimer)
  /\ \A p \in Procs : WF_vars(WakeRate(p, debug)) /\ WF_vars(WakeMin(p, debug))

SpecGovLive == Init /\ [][NextGovConc]_vars /\ GovEventLoop

\* ------------------------------------------------- with and without --debug
\* index.ts passes the flag to the tool's constructor; it is never assigned
\* again.  One tool invocation at a time, EnvMaxCalls of them.
StartDebug(p) == Quiet /\ started < EnvMaxCalls /\ Start(p)

NextDebug ==
  \/ \E p \in Procs : StartDebug(p)
  \/ \E p \in Procs : CheckSuspension(p, debug)
  \/ \E p \in Procs : WakeRate(p, debug)
  \/ \E p \in Procs : WakeMin(p, debug)
  \/ \E p \in Procs : Dispatch(p)
  \/ \E p \in Procs : ReplyDDG(p, debug)
  \/ \E p \in Procs : ReplyBrave(p, debug)
  \/ \E p \in Procs : Return(p)
  \/ TickTimer
  \/ TickExpire

SpecDebug == InitDebug /\ [][NextDebug]_vars

\* the same calls in a directory with any preferred_sites.json
SpecEnhance == InitEnhance /\ [][NextDebug]_vars

\* ---------------------------------------------------- several tool instances
\* new WebSearchTool(debug) may be called more than once (the test scripts
\* do): every instance reads the static fields of the class and holds
\* RequestManager.getInstance().  The file is absent, so each instance's
\* PreferredSitesManager holds no sites.
Tools == 1..NumTools

StartTool(p) == Quiet /\ started < EnvMaxCalls /\ \E t \in Tools : StartOn(p, t)

NextTools ==
  \/ \E p \in Procs : StartTool(p)
  \/ \E p \in Procs : CheckSuspension(p, debug)
  \/ \E p \in Procs : WakeRate(p, debug)
  \/ \E p \in Procs : WakeMin(p, debug)
  \/ \E p \in Procs : Dispatch(p)
  \/ \E p \in Procs : ReplyDDG(p, debug)
  \/ \E p \in Procs : ReplyBrave(p, debug)
  \/ \E p \in Procs : Return(p)
  \/ TickTimer
  \/ TickExpire

SpecTools == Init /\ [][NextTools]_vars

\* the request manager of a server started with or without --debug; between
\* two callers the process may also stay idle for just under a minute
InitGovDebug ==
  /\ InitDebug
  /\ requestCount = 0

GovIdle ==
  /\ Quiet
  /\ now < StartTime + GovMaxSpan
  /\ now' = now + (OneMinute - 1500)
  /\ UNCHANGED << suspension, ledger, pc, args, frame, result, hist, started, userAgentsSent, io, preferred, owner >>

NextGovDebug ==
  \/ \E p \in Procs : GovCall(p, debug)
  \/ \E p \in Procs : WakeRate(p, debug)
  \/ \E p \in Procs : WakeMin(p, debug)
  \/ TickTimer
  \/ GovTick
  \/ GovIdle

SpecGovDebug == InitGovDebug /\ [][NextGovDebug]_vars

\* ================================================================ claims
Minute == 60 * 1000

\* the documented backoff table: 20, 40, 80 minutes, then 120
BackoffMinutes(c) == CASE c = 1 -> 20 [] c = 2 -> 40 [] c = 3 -> 80 [] OTHER -> 120

\* call p receives the reply of its DuckDuckGo request in this step
DDGReplyStep(p) == pc[p] = "fetch" /\ frame[p].provider = "ddg" /\ pc'[p] # "fetch"

\* the reply call p got from DuckDuckGo is a failure for execute: no 2xx
\* status, or no result taken from the page
DDGFailed(p) ==
  LET r == hist[p].ddgReply
  IN /\ r.status # -1
     /\ \/ ~(r.status \in 200..299)
        \/ maxResultsOf(args[p]) <= 0
        \/ \A i \in 1..Len(r.rows) : r.rows[i] = 0

C3_SoftBlockSuspendsOnce ==
  [][ \A p \in Procs :
        (/\ DDGReplyStep(p)
         /\ hist'[p].ddgReply.status = 200
         /\ hist'[p].ddgReply.rows = <<>>
         /\ hist'[p].ddgReply.len > 10000) =>
           /\ suspensionCount' = suspensionCount + 1
           /\ (suspensionCount = 0 => duckDuckGoSuspendedUntil' = now + 20 * Minute)
           /\ frame'[p].provider = "brave" ]_vars

\* C4: a 200 reply with no result rows and a small body ends the call with an
\* empty DuckDuckGo response, without a suspension and without the secondary.
C4_SmallEmptyBodyIsGenuine ==
  [][ \A p \in Procs :
        (/\ DDGReplyStep(p)
         /\ hist'[p].ddgReply.status = 200
         /\ hist'[p].ddgReply.rows = <<>>
         /\ hist'[p].ddgReply.len <= 10000) =>
           /\ pc'[p] = "done"
           /\ result'[p].searchProvider = "DuckDuckGo"
           /\ result'[p].totalResults = 0
           /\ duckDuckGoSuspendedUntil' = duckDuckGoSuspendedUntil
           /\ suspensionCount' <= suspensionCount
           /\ frame'[p].provider # "brave" ]_vars

\* C5: the step in which a primary request succeeds with at least one
\* result ends with suspensionCount = 0, whatever the count was.
C5_SuccessResetsCount ==
  [][ \A p \in Procs :
        (/\ DDGReplyStep(p)
         /\ pc'[p] = "done"
         /\ result'[p].searchProvider = "DuckDuckGo"
         /\ result'[p].totalResults >= 1) => suspensionCount' = 0 ]_vars

\* a DuckDuckGo success that found a count above 0 and left 0
C5_Witness ==
  \E p \in Procs : /\ pc[p] = "done"
                   /\ result[p].searchProvider = "DuckDuckGo"
                   /\ result[p].totalResults >= 1
                   /\ hist[p].countBefore > 0
                   /\ suspensionCount = 0

\* C6: a call whose suspension check ran at a time before
\* duckDuckGoSuspendedUntil never sends a request to DuckDuckGo; it is routed
\* to Brave and a response it returns is labelled 'Brave (DDG suspended)'.
C6_SuspendedSkipsPrimary ==
  \A p \in Procs :
    (hist[p].checked /\ hist[p].checkNow < hist[p].checkUntil) =>
       /\ hist[p].ddgRequests = 0
       /\ frame[p].provider = "brave"
       /\ (pc[p] \in {"done", "failed"} => hist[p].braveRequests = 1)
       /\ (pc[p] = "done" => result[p].searchProvider = "Brave (DDG suspended)")

\* a call that was checked during a suspension has returned Brave's results
C6_Witness ==
  \E p \in Procs : /\ pc[p] = "done"
                   /\ hist[p].checked
                   /\ hist[p].checkNow < hist[p].checkUntil
                   /\ hist[p].braveRequests = 1
                   /\ result[p].totalResults > 0

\* the rows of a Brave page that can become results
BraveRows(r) == { r.snippet[i] : i \in 1..Len(r.snippet) }
                \cup { r.webResult[i] : i \in 1..Len(r.webResult) }
                \cup { r.result[i] : i \in 1..Len(r.result) }

\* C7: a finished call whose DuckDuckGo attempt failed (HTTP error, rejected
\* fetch or no results) and whose Brave request was answered with 2xx has
\* returned a response, not an error: labelled 'Brave', holding rows of the
\* Brave page only, with totalResults the number of results.
C7_FallbackSucceeds ==
  \A p \in Procs :
    (/\ pc[p] \in {"done", "failed"}
     /\ hist[p].ddgRequests = 1
     /\ DDGFailed(p)
     /\ hist[p].braveReply.status \in 200..299) =>
       /\ pc[p] = "done"
       /\ result[p].kind = "response"
       /\ result[p].searchProvider = "Brave"
       /\ result[p].totalResults = Len(result[p].results)
       /\ \A i \in 1..Len(result[p].results) :
            result[p].results[i] \in BraveRows(hist[p].braveReply) \ {0}
       /\ (BraveRows(hist[p].braveReply) \ {0} # {} /\ maxResultsOf(args[p]) > 0
             => result[p].totalResults > 0)

\* HTTP 429 from DuckDuckGo, then results from Brave, in one call
C7_Witness ==
  \E p \in Procs : /\ pc[p] = "done"
                   /\ hist[p].ddgReply.status = 429
                   /\ hist[p].braveReply.status = 200
                   /\ result[p].searchProvider = "Brave"
                   /\ result[p].totalResults = 2

\* a call has failed with the aggregate error
FailedAll(p) == pc[p] = "failed" /\ result[p].message = ErrAll

IsBlank(q) == \A i \in 1..Len(q) : q[i] = " "

\* C9: a call that starts with a blank query or with maxResults above 50
\* fails in its first step with one of the two argument errors, not the
\* aggregate error, having made no admit and no request, and with the
\* suspension state and the request ledger unchanged.
C9_InvalidArguments ==
  [][ \A p \in Procs :
        (/\ pc[p] = "idle"
         /\ started' = started + 1
         /\ args'[p] # args[p] \/ pc'[p] # pc[p]
         /\ IsBlank(args'[p].query) \/ (args'[p].maxResults # Undefined /\ args'[p].maxResults > 50)) =>
           /\ pc'[p] = "failed"
           /\ result'[p].kind = "error"
           /\ result'[p].message \in {ErrQuery, ErrMax}
           /\ result'[p].message # ErrAll
           /\ hist'[p].admits = 0 /\ hist'[p].ddgRequests = 0 /\ hist'[p].braveRequests = 0
           /\ UNCHANGED << suspension, ledger >> ]_vars

\* a call with maxResults = 51 and a good query has been refused
C9_Witness ==
  \E p \in Procs : /\ pc[p] = "failed"
                   /\ args[p].maxResults = 51
                   /\ ~IsBlank(args[p].query)
                   /\ result[p].message = ErrMax

\* C10: the ledger never holds an eleventh admission less than 60 seconds
\* after the first of the ten before it.
C10_EleventhWaitsForWindow ==
  \A i \in 1..(Len(requestTimes) - maxRequestsPerMinute) :
    requestTimes[i + maxRequestsPerMinute] - requestTimes[i] >= OneMinute

\* C11: at no time does the ledger hold more than ten admissions inside one
\* interval of 60 seconds.
C11_AtMostTenPerMinute ==
  \A i \in 1..Len(requestTimes) :
    Cardinality({ j \in 1..Len(requestTimes) :
                    /\ requestTimes[j] >= requestTimes[i]
                    /\ requestTimes[j] < requestTimes[i] + OneMinute }) <= maxRequestsPerMinute

\* C12: with one caller at a time, two admissions that follow each other are
\* at least 2000 ms apart.
C12_SequentialSpacing ==
  \A i \in 1..(Len(requestTimes) - 1) :
    requestTimes[i + 1] - requestTimes[i] >= 2000

\* a caller that came in right after an admission was held back for the
\* full 2000 ms
C12_Witness ==
  /\ Len(requestTimes) >= 2
  /\ requestTimes[Len(requestTimes)] - requestTimes[Len(requestTimes) - 1] = 2000

\* C14: whoever is inside waitForRequest() and in whatever order, any two
\* admissions in the ledger are at least 2000 ms apart.
C14_ConcurrentSpacing ==
  \A i, j \in 1..Len(requestTimes) :
    i < j => requestTimes[j] - requestTimes[i] >= minDelay

\* C13: two overlapping calls that both fail on the primary leave the
\* suspension state of a serial run: the count is raised for a blocking
\* episode once, that is, only by a step that starts with the primary active,
\* never again while the suspension it caused is still running.
C13_OneIncrementPerEpisode ==
  [][suspensionCount' > suspensionCount
       => ~isSuspendedAt(now, duckDuckGoSuspendedUntil)]_vars


\* the events of one call in the order the code produces them for a request
RequestCycle == << "admit", "jitter", "fetch" >>

\* C15: every search request of a call, to DuckDuckGo or to Brave, is sent
\* after that call has finished waitForRequest() and then addRandomDelay(),
\* in that order and once each for the request: the events of a call are a
\* prefix of (admit, jitter, fetch) repeated, with one fetch per request sent.
C15_AdmitJitterThenFetch ==
  \A p \in Procs :
    LET log == hist[p].log
        fetches == { i \in 1..Len(log) : log[i] = "fetch" }
    IN /\ \A i \in 1..Len(log) : log[i] = RequestCycle[((i - 1) % 3) + 1]
       /\ Cardinality(fetches) = hist[p].ddgRequests + hist[p].braveRequests
       /\ Cardinality({ i \in 1..Len(log) : log[i] = "admit" }) = hist[p].admits
       /\ (pc[p] = "fetch" => Len(log) > 0 /\ log[Len(log)] = "fetch")

\* a call has sent a request to DuckDuckGo and then one to Brave
C15_Witness ==
  \E p \in Procs : /\ pc[p] = "fetch"
                   /\ hist[p].ddgRequests = 1
                   /\ hist[p].braveRequests = 1
                   /\ hist[p].log = RequestCycle \o RequestCycle

\* C16: a suspension ends by the passing of time alone and always ends: a
\* call whose suspension check ran at or after duckDuckGoSuspendedUntil is
\* routed to DuckDuckGo again with nothing else having been done, and the end
\* of a suspension is never more than 120 minutes away.
C16_SuspensionEndsLazily ==
  /\ duckDuckGoSuspendedUntil <= now + 120 * Minute
  /\ \A p \in Procs :
       (hist[p].checked /\ hist[p].checkNow >= hist[p].checkUntil) =>
          /\ ~frame[p].isDuckDuckGoSuspended
          /\ (frame[p].provider = "ddg" \/ hist[p].ddgRequests = 1)
          /\ (pc[p] \in {"fetch", "done", "failed"} => hist[p].ddgRequests = 1)

\* a call that started at the very end of a suspension has sent its request
\* to DuckDuckGo
C16_Witness ==
  \E p \in Procs : /\ hist[p].checked
                   /\ hist[p].checkUntil > 0
                   /\ hist[p].checkNow = hist[p].checkUntil
                   /\ hist[p].ddgRequests = 1

\* the rows of a DuckDuckGo page that can become results
DDGRows(r) == { r.rows[i] : i \in 1..Len(r.rows) }

\* the results of a response as a set
ResultSet(r) == { r.results[i] : i \in 1..Len(r.results) }

AgentIndex(a) ==
  IF \E k \in 1..Len(searchAgents) : searchAgents[k] = a
  THEN CHOOSE k \in 1..Len(searchAgents) : searchAgents[k] = a
  ELSE 0

\* C18: with one call at a time getUserAgent() gives each request one of the
\* 5 fixed strings, the one at index requestCount mod 5: successive requests
\* take successive entries of the list, so any 5 requests in a row carry 5
\* different strings and the sequence repeats with period 5.
C18_IdentityRotation ==
  LET n == Len(userAgentsSent)
  IN /\ Len(searchAgents) = 5
     /\ \A i \in 1..n : AgentIndex(userAgentsSent[i]) \in 1..5
     /\ \A i \in 1..(n - 1) :
          AgentIndex(userAgentsSent[i + 1]) = (AgentIndex(userAgentsSent[i]) % 5) + 1
     /\ \A i, j \in 1..n : (i < j /\ j - i < 5) => userAgentsSent[i] # userAgentsSent[j]
     /\ \A i \in 1..(n - 5) : userAgentsSent[i + 5] = userAgentsSent[i]
     /\ \A p \in Procs :
          pc[p] = "fetch" => /\ n > 0
                             /\ hist[p].agent = userAgentsSent[n]
                             /\ AgentIndex(hist[p].agent) = (requestCount % 5) + 1

\* six requests have been sent: the sixth carries the string of the first
C18_Witness ==
  /\ Len(userAgentsSent) = 6
  /\ userAgentsSent[6] = userAgentsSent[1]
  /\ Cardinality({ userAgentsSent[i] : i \in 1..5 }) = 5

\* C19: every call of execute eventually returns a response or throws: a
\* request that has been sent is settled after a bounded time even when the
\* provider never answers.
C19_EveryCallReturns ==
  \A p \in Procs : (pc[p] = "fetch") ~> (pc[p] \in {"done", "failed"})

\* C20: a primary request that ends without any HTTP status (fetch rejects)
\* makes the same transition as a non-2xx reply: suspensionCount + 1, the
\* suspension end recomputed from the new count, that is, the statics that
\* suspendDuckDuckGo() yields once, and the call goes on to Brave.
C20_NetworkErrorSuspendsOnce ==
  [][ \A p \in Procs :
        (DDGReplyStep(p) /\ hist'[p].ddgReply.status = NetworkError) =>
           /\ suspensionCount' = suspensionCount + 1
           /\ duckDuckGoSuspendedUntil' = now + BackoffMinutes(suspensionCount') * Minute
           /\ << suspensionCount', duckDuckGoSuspendedUntil' >>
                = << suspendDuckDuckGo(SuspensionState, now).count,
                     suspendDuckDuckGo(SuspensionState, now).until >>
           /\ frame'[p].provider = "brave"
           /\ pc'[p] \in {"rateWait", "minWait", "jitter"}
           /\ result'[p] = NoResult ]_vars

\* a call whose DuckDuckGo fetch was rejected at count 0 has sent a request
\* to Brave, the count being 1
C20_Witness ==
  \E p \in Procs : /\ hist[p].ddgReply.status = NetworkError
                   /\ hist[p].countBefore = 0
                   /\ suspensionCount = 1
                   /\ hist[p].braveRequests = 1

\* call p receives the reply of its Brave request in this step
BraveReplyStep(p) == pc[p] = "fetch" /\ frame[p].provider = "brave" /\ pc'[p] # "fetch"

\* C21: a Brave request that ends with a non-2xx status or a rejected fetch
\* fails the call in that step with the aggregate error, on the fallback
\* route and on the suspended route alike: no further request is admitted
\* or sent, DuckDuckGo is not asked (again), and the statics are untouched.
C21_SecondaryFailureIsFinal ==
  [][ \A p \in Procs :
        (BraveReplyStep(p) /\ ~(hist'[p].braveReply.status \in 200..299)) =>
           /\ pc'[p] = "failed"
           /\ result'[p].kind = "error"
           /\ result'[p].message = ErrAll
           /\ hist'[p].ddgRequests = hist[p].ddgRequests
           /\ hist'[p].ddgRequests <= 1
           /\ hist'[p].braveRequests = 1
           /\ hist'[p].admits = hist[p].admits
           /\ UNCHANGED << suspension, ledger, frame, userAgentsSent >> ]_vars

\* a call that fell back to Brave after a DuckDuckGo failure has failed
\* because the Brave fetch was rejected
C21_Witness ==
  \E p \in Procs : /\ pc[p] = "failed"
                   /\ hist[p].ddgRequests = 1
                   /\ hist[p].braveRequests = 1
                   /\ hist[p].braveReply.status = NetworkError
                   /\ result[p].message = ErrAll

\* C22: waitForRequest() only delays: a caller is either outside it or in
\* one of its two sleeps, whatever the ledger holds, and a caller in a sleep
\* is admitted after a finite time, also while other callers arrive.
C22_GovernorOnlyDelays ==
  /\ [](\A p \in Procs : pc[p] \in {"idle", "rateWait", "minWait"})
  /\ \A p \in Procs :
       (pc[p] \in {"rateWait", "minWait"}) ~> (pc[p] = "idle" /\ hist[p].admits = 1)

\* a caller that slept on a full ledger has been admitted while another
\* caller is still in its sleep
C22_Witness ==
  \E p, q \in Procs : /\ pc[p] = "idle" /\ hist[p].admits = 1
                      /\ pc[q] = "minWait"
                      /\ Len(requestTimes) > maxRequestsPerMinute

\* C23: suspensionCount is never negative, and duckDuckGoSuspendedUntil is
\* written only by a step that raises suspensionCount, which sets it to the
\* time of that step plus the duration of the new count; every other step,
\* the reset of the count included, leaves it as it is.
C23_UntilDerivedFromCount ==
  [][ /\ suspensionCount >= 0 /\ suspensionCount' >= 0
      /\ (duckDuckGoSuspendedUntil' # duckDuckGoSuspendedUntil =>
            /\ suspensionCount' > suspensionCount
            /\ duckDuckGoSuspendedUntil' = now + BackoffMinutes(suspensionCount') * Minute)
      /\ (suspensionCount' <= suspensionCount =>
            duckDuckGoSuspendedUntil' = duckDuckGoSuspendedUntil) ]_vars

\* the count was reset by a successful DuckDuckGo call while the end of the
\* last suspension is still in the statics
C23_Witness ==
  /\ suspensionCount = 0
  /\ duckDuckGoSuspendedUntil > 0
  /\ \E p \in Procs : pc[p] = "done" /\ result[p].searchProvider = "DuckDuckGo"
                      /\ hist[p].countBefore >= 2

\* a step runs the head of waitForRequest(): the eviction loop, then the
\* reads of requestTimes.length and requestTimes[0]
ReadsAtEntry ==
  \/ \E p \in Procs : pc[p] \notin {"rateWait", "minWait"} /\ pc'[p] \in {"rateWait", "minWait"}
  \/ /\ requestCount' = requestCount + 1
     /\ \A p \in Procs : pc[p] \in {"rateWait", "minWait"} => pc'[p] = pc[p]

\* a step runs the tail of waitForRequest() with --debug: the "approved"
\* line reads requestTimes.length
ReadsAtApproval == debug /\ requestCount' = requestCount + 1

\* C24: at every read of the list of request times no entry is older than
\* 60 seconds at the time of the read.
C24_NoStaleEntryAtRead ==
  [][ (ReadsAtEntry \/ ReadsAtApproval) =>
        \A i \in 1..Len(requestTimes') : requestTimes'[i] >= now - OneMinute ]_vars

\* the steps of NextDebug as the process started with the other flag value
\* would take them
NextDebugFlipped ==
  \/ \E p \in Procs : StartDebug(p)
  \/ \E p \in Procs : CheckSuspension(p, ~debug)
  \/ \E p \in Procs : WakeRate(p, ~debug)
  \/ \E p \in Procs : WakeMin(p, ~debug)
  \/ \E p \in Procs : Dispatch(p)
  \/ \E p \in Procs : ReplyDDG(p, ~debug)
  \/ \E p \in Procs : ReplyBrave(p, ~debug)
  \/ \E p \in Procs : Return(p)
  \/ TickTimer
  \/ TickExpire

Unusable(f) == f.error # "" \/ f.value.type # "array"

Entries(f) == IF Unusable(f) THEN <<>> ELSE f.value.items

\* an entry with a string url and an array of strings as keywords
WellFormed(e) ==
  /\ e.type = "object"
  /\ e.items[1].type = "string"
  /\ e.items[2].type = "array"
  /\ \A k \in 1..Len(e.items[2].items) : e.items[2].items[k].type = "string"

HoldsMalformed(f) == \E i \in 1..Len(Entries(f)) : ~WellFormed(Entries(f)[i])
HoldsNull(f) == \E i \in 1..Len(Entries(f)) : Entries(f)[i].type = "null"

\* call p has got the result of enhanceQuery
Enhanced(p) == frame[p].provider # "none"

\* C26 (as stated): with a configuration that is missing, unreadable, not
\* valid JSON, not an array or that holds malformed entries, enhance returns
\* the original query unchanged.
C26_BadConfigGivesOriginalQuery ==
  \A p \in Procs :
    (Enhanced(p) /\ (Unusable(file) \/ HoldsMalformed(file))) =>
       frame[p].enhancedQuery = args[p].query

\* C26 (amended): enhancement never fails the call, which goes on to a
\* provider; with a configuration that is missing, unreadable, not valid
\* JSON, not an array or that holds a null entry, the query is unchanged;
\* otherwise malformed entries are skipped and the well-formed entries are
\* applied as if the malformed ones were absent.
C26_EnhanceNeverFails ==
  [][ \A p \in Procs :
        (pc[p] = "enhance" /\ pc'[p] # "enhance") =>
           /\ pc'[p] \in {"rateWait", "minWait", "jitter"}
           /\ frame'[p].provider \in {"ddg", "brave"}
           /\ result'[p] = NoResult
           /\ (Unusable(file) \/ HoldsNull(file)) =>
                 frame'[p].enhancedQuery = args[p].query
           /\ ~(Unusable(file) \/ HoldsNull(file)) =>
                 frame'[p].enhancedQuery =
                    enhanceQuery(SelectSeq(Entries(file), WellFormed), args[p].query)
           /\ (frame'[p].enhancedQuery # args[p].query) =>
                 \E i \in 1..Len(Entries(file)) :
                    /\ WellFormed(Entries(file)[i])
                    /\ \E k \in 1..Len(Entries(file)[i].items[2].items) :
                          includes(toLowerCase(args[p].query),
                                   toLowerCase(Entries(file)[i].items[2].items[k].s)) ]_vars

\* a call made with a file whose array holds a null entry next to a matching
\* site was answered by a provider for the original query
C26_Witness ==
  \E p \in Procs : /\ pc[p] = "done"
                    /\ HoldsNull(file)
                    /\ \E i \in 1..Len(Entries(file)) : WellFormed(Entries(file)[i])
                    /\ frame[p].enhancedQuery = args[p].query
                    /\ args[p].query = << "j", "s" >>
                    /\ result[p].kind = "response"

\* call p enters waitForRequest(): from execute, or from the fallback
EntersAdmit(p) ==
  /\ \/ pc[p] = "enhance"
     \/ pc[p] = "fetch" /\ frame[p].provider = "ddg" /\ frame'[p].provider = "brave"
  /\ pc'[p] # pc[p]
  /\ pc'[p] \in {"rateWait", "minWait", "jitter"}

\* C27: there is one suspension state and one request ledger for all tool
\* instances and both providers: a call on any instance skips DuckDuckGo
\* while a suspension caused through any instance lasts, and its requests
\* are checked against, and recorded in, the ledger that holds the requests
\* of every instance.
C27_StateSharedAcrossInstances ==
  [][ \A p \in Procs :
        /\ (pc[p] = "enhance" /\ pc'[p] # "enhance") =>
              /\ frame'[p].isDuckDuckGoSuspended = (now < duckDuckGoSuspendedUntil)
              /\ frame'[p].provider = IF now < duckDuckGoSuspendedUntil THEN "brave" ELSE "ddg"
        /\ EntersAdmit(p) =>
              LET recent == cleanOld(requestTimes, now - OneMinute)
              IN /\ Len(recent) >= maxRequestsPerMinute => pc'[p] = "rateWait"
                 /\ (Len(recent) < maxRequestsPerMinute /\ now - lastRequestTime < minDelay)
                       => pc'[p] = "minWait"
        /\ hist'[p].admits > hist[p].admits =>
              /\ requestCount' = requestCount + 1
              /\ lastRequestTime' = now
              /\ Len(requestTimes') > 0 /\ requestTimes'[Len(requestTimes')] = now
              /\ \A i \in 1..Len(requestTimes) :
                    requestTimes[i] >= hist'[p].checkNow - OneMinute =>
                       \E k \in 1..Len(requestTimes') : requestTimes'[k] = requestTimes[i] ]_vars

\* a call on tool 2 skips DuckDuckGo because of the suspension that a call on
\* tool 1 caused, and waits out the minimum delay after the request of tool 1
C27_Witness ==
  \E p \in Procs : /\ hist[p].tool = 2
                    /\ owner.suspension = 1 /\ owner.ledger = 1
                    /\ pc[p] = "minWait"
                    /\ frame[p].provider = "brave"
                    /\ frame[p].isDuckDuckGoSuspended
                    /\ hist[p].ddgRequests = 0

\* the rows of a reply that yield a result, in document order
ValidRows(rows) == SelectSeq(rows, LAMBDA r : r # 0)

\* results is a leading part of the valid rows of one list of the reply
LeadingRowsOf(results, rows) ==
  /\ Len(results) <= Len(ValidRows(rows))
  /\ results = SubSeq(ValidRows(rows), 1, Len(results))

\* the results of a response keep the order of the provider's page
KeepsProviderOrder(p) ==
  IF result[p].searchProvider = "DuckDuckGo"
  THEN LeadingRowsOf(result[p].results, hist[p].ddgReply.rows)
  ELSE \/ LeadingRowsOf(result[p].results, hist[p].braveReply.snippet)
       \/ LeadingRowsOf(result[p].results, hist[p].braveReply.webResult)
       \/ LeadingRowsOf(result[p].results, hist[p].braveReply.result)

C29_CountUpByOneOrReset ==
  [][ \/ suspensionCount' = suspensionCount
      \/ /\ suspensionCount' = suspensionCount + 1
         /\ \E p \in Procs : DDGReplyStep(p) /\ pc'[p] # "done"
         /\ duckDuckGoSuspendedUntil' = now + BackoffMinutes(suspensionCount + 1) * Minute
      \/ /\ suspensionCount' = 0
         /\ \E p \in Procs : /\ DDGReplyStep(p)
                             /\ pc'[p] = "done"
                             /\ result'[p].searchProvider = "DuckDuckGo" ]_vars

Waits == {"rateWait", "minWait"}

\* C30: in every call of waitForRequest() the rate limit (Policy A) is looked
\* at first and the minimum delay (Policy B) after it, also when the caller
\* has slept for the rate limit; the request is recorded at the time of entry
\* plus the two sleeps, and nothing is recorded while the caller still waits.
C30_WindowThenSpacingThenRecord ==
  [][ \A p \in Procs :
        /\ (pc'[p] = "rateWait" /\ pc[p] # "rateWait") => pc[p] = "idle"
        /\ (pc[p] = "idle" /\ pc'[p] # "idle") =>
              (pc'[p] = "rateWait") =
                 (Len(cleanOld(requestTimes, now - OneMinute)) >= maxRequestsPerMinute)
        /\ (pc[p] = "rateWait" /\ pc'[p] # "rateWait") =>
              /\ now = frame[p].wnow + hist[p].waitA
              /\ (pc'[p] = "minWait") = (frame[p].wnow - lastRequestTime < minDelay)
              /\ pc'[p] \in {"minWait", "idle"}
        /\ (pc[p] = "minWait" /\ pc'[p] # "minWait") => pc'[p] = "idle"
        /\ (pc'[p] \in Waits /\ pc'[p] # pc[p]) =>
              /\ requestCount' = requestCount
              /\ lastRequestTime' = lastRequestTime
              /\ Len(requestTimes') <= Len(requestTimes)
              /\ hist'[p].admits = 0
        /\ (pc[p] \in Waits /\ pc'[p] = "idle") =>
              /\ now = frame[p].wnow + hist'[p].waitA + hist'[p].waitB
              /\ hist'[p].admits = 1
              /\ requestCount' = requestCount + 1
              /\ lastRequestTime' = now
              /\ requestTimes' = Append(requestTimes, now) ]_vars

\* a caller slept for the rate limit, then for the minimum delay, and was
\* recorded after both
C30_Witness ==
  \E p \in Procs : /\ pc[p] = "idle"
                    /\ hist[p].admits = 1
                    /\ hist[p].waitA > 0
                    /\ hist[p].waitB > 0
                    /\ lastRequestTime = now

\* C31: also with overlapping calls each request carries the string whose
\* index is the number of its own admission mod 5, whatever was admitted
\* between its admission and its dispatch, so that two requests dispatched
\* one after the other never carry the same string.
C31_IdentityFollowsAdmission ==
  /\ \A i \in 1..(Len(userAgentsSent) - 1) : userAgentsSent[i + 1] # userAgentsSent[i]
  /\ \A p \in Procs :
       pc[p] = "fetch" => AgentIndex(hist[p].agent) = (hist[p].admitNo % 5) + 1

\* C32: no request is dispatched to DuckDuckGo at a time now with
\* now < duckDuckGoSuspendedUntil, also not by a call that passed the
\* suspension check earlier and was waiting since.
C32_NoPrimaryDispatchWhileSuspended ==
  [][ \A p \in Procs :
        (pc[p] = "jitter" /\ pc'[p] = "fetch" /\ frame[p].provider = "ddg")
           => ~(now < duckDuckGoSuspendedUntil) ]_vars

\* ---- three calls in flight, after an earlier suspension has run out ----

\* the first request of the process was answered with 429 after the longest
\* jitter, the secondary served the call, and the twenty minutes are over
RaceFirstReply == StartTime + sleepMs(JitterRange - 1)

\* the state of the process at that moment; started counts the calls that
\* arrive from here on
InitRace ==
  /\ now = RaceFirstReply + SUSPENSION_DURATION
  /\ duckDuckGoSuspendedUntil = RaceFirstReply + SUSPENSION_DURATION
  /\ suspensionCount = 1
  /\ lastRequestTime = RaceFirstReply
  /\ requestCount = 2
  /\ requestTimes = << StartTime, RaceFirstReply >>
  /\ pc = [p \in Procs |-> "idle"]
  /\ args = [p \in Procs |-> NoArgs]
  /\ frame = [p \in Procs |-> NoFrame]
  /\ result = [p \in Procs |-> NoResult]
  /\ hist = [p \in Procs |-> NoHist]
  /\ started = 0
  /\ userAgentsSent = << searchAgents[2], searchAgents[3] >>
  /\ debug = FALSE
  /\ stderr = [p \in Procs |-> FALSE]
  /\ file = NoFile
  /\ sites = <<>>
  /\ loaded = TRUE
  /\ owner = [suspension |-> 1, ledger |-> 1]

\* the calls arrive together, before the first of them gets to run
StartRace(p) ==
  /\ started < RaceMaxCalls
  /\ \A q \in Procs : pc[q] \in { "idle", "enhance" }
  /\ Start(p)
  /\ args'[p] = [query |-> << "j", "s" >>, maxResults |-> Undefined]

\* a call that has its result returns before anything else runs
Settled == \A q \in Procs : pc[q] \notin { "done", "failed" }

\* timers that are due fire in the order of their expiry
Earliest(p) ==
  \A q \in Procs : pc[q] \in { "minWait", "jitter" } => frame[p].wake <= frame[q].wake

\* Math.random() returns 0 in addRandomDelay
NoJitter(p) == pc'[p] = "jitter" => frame'[p].wake = now + sleepMs(0)

\* the calls run in the order of their arrival
CheckSuspensionRace(p, d) ==
  /\ Settled
  /\ \A q \in Procs : q < p => pc[q] # "enhance"
  /\ CheckSuspension(p, d)
  /\ NoJitter(p)

WakeMinRace(p, d) == Settled /\ Earliest(p) /\ WakeMin(p, d) /\ NoJitter(p)

DispatchRace(p) == Settled /\ Earliest(p) /\ Dispatch(p)

\* the primary answers 429 or with a page of results, the secondary with a
\* page of results
RaceDDGReplies == { r \in ConcDDGReplies : r.status \in { 429, 200 } }
RaceBraveReplies == { r \in ConcBraveReplies : r.status = 200 }

\* the primary is slow: its answers arrive when every call has sent its request
AllSent ==
  /\ started = RaceMaxCalls
  /\ \A q \in Procs : pc[q] \in { "enhance", "minWait", "jitter" } => frame[q].provider = "brave"

ReplyDDGRace(p, d) ==
  /\ Settled
  /\ AllSent
  /\ ReplyDDG(p, d)
  /\ hist'[p].ddgReply \in RaceDDGReplies

ReplyBraveRace(p, d) == Settled /\ ReplyBrave(p, d) /\ hist'[p].braveReply \in RaceBraveReplies

NextRace ==
  \/ \E p \in Procs : StartRace(p)
  \/ \E p \in Procs : CheckSuspensionRace(p, debug)
  \/ \E p \in Procs : WakeMinRace(p, debug)
  \/ \E p \in Procs : DispatchRace(p)
  \/ \E p \in Procs : ReplyDDGRace(p, debug)
  \/ \E p \in Procs : ReplyBraveRace(p, debug)
  \/ \E p \in Procs : Return(p)
  \/ TickTimer
  \/ TickExpire

SpecRace == InitRace /\ [][NextRace]_vars

\* C33: in every interleaving of overlapping calls the end of the suspension
\* never moves to an earlier instant: no step lowers duckDuckGoSuspendedUntil
C33_UntilNeverDecreases ==
  [][ duckDuckGoSuspendedUntil' >= duckDuckGoSuspendedUntil ]_vars

\* C34: while DuckDuckGo is suspended (now < duckDuckGoSuspendedUntil) the
\* suspension count is at least 1: no call resets it to 0 before the
\* suspension has run out
C34_SuspendedImpliesCounted ==
  now < duckDuckGoSuspendedUntil => suspensionCount >= 1

\* C35: a call that the suspension check sent straight to Brave leaves
\* suspensionCount and duckDuckGoSuspendedUntil as they are in every one of
\* its steps, whether Brave fails or answers; a 2xx answer of Brave ends the
\* call with a response, also when no result was taken from it
\* (totalResults 0, empty results).
C35_SuspendedRouteKeepsSuspension ==
  [][ \A p \in Procs :
        (pc'[p] # pc[p] /\ (frame[p].isDuckDuckGoSuspended \/ frame'[p].isDuckDuckGoSuspended))
           => /\ UNCHANGED suspension
              /\ (BraveReplyStep(p) /\ ok(hist'[p].braveReply))
                    => /\ pc'[p] = "done"
                       /\ result'[p].kind = "response"
                       /\ result'[p].totalResults = Len(result'[p].results)
                       /\ ResultSet(result'[p]) \subseteq BraveRows(hist'[p].braveReply) ]_vars

\* a call on the suspended route is done with an empty response of Brave,
\* and the suspension is still running
C35_Witness ==
  \E p \in Procs :
    /\ pc[p] = "done"
    /\ frame[p].isDuckDuckGoSuspended
    /\ hist[p].braveReply.status = 200
    /\ result[p].kind = "response"
    /\ result[p].totalResults = 0
    /\ suspensionCount >= 1
    /\ now < duckDuckGoSuspendedUntil

\* call p is on the fallback route: DuckDuckGo was asked and failed, Brave
\* was asked next
OnFallback(p) ==
  /\ ~frame[p].isDuckDuckGoSuspended
  /\ hist[p].ddgRequests = 1
  /\ hist[p].braveRequests = 1

\* C36: when DuckDuckGo fails and then Brave fails in the same call, the call
\* ends with the aggregate error and the suspension that the DuckDuckGo
\* failure started stays as it is: the count is above its value before the
\* failure, the end lies ahead, and the failing step changes neither. A call
\* whose check finds the suspension running sends nothing to DuckDuckGo.
C36_NoRollbackAfterDoubleFailure ==
  [][ \A p \in Procs :
        /\ (BraveReplyStep(p) /\ OnFallback(p) /\ ~ok(hist'[p].braveReply))
              => /\ pc'[p] = "failed"
                 /\ result'[p] = Failure(ErrAll)
                 /\ UNCHANGED suspension
                 /\ suspensionCount' > hist[p].countBefore
                 /\ now' < duckDuckGoSuspendedUntil'
        /\ (hist'[p].checked /\ hist'[p].checkNow < hist'[p].checkUntil)
              => /\ hist'[p].ddgRequests = 0
                 /\ frame'[p].provider # "ddg" ]_vars

\* a call has failed on both providers and DuckDuckGo is suspended
C36_Witness ==
  \E p \in Procs :
    /\ FailedAll(p)
    /\ OnFallback(p)
    /\ hist[p].ddgReply.status # -1
    /\ ~ok(hist[p].braveReply)
    /\ suspensionCount = hist[p].countBefore + 1
    /\ now < duckDuckGoSuspendedUntil

\* C37: whatever maxResults passed validation, the step that receives a 2xx
\* page of DuckDuckGo with at least one valid result row starts no
\* suspension: it leaves duckDuckGoSuspendedUntil alone and does not raise
\* suspensionCount
C37_ValidPageNeverSuspends ==
  [][ \A p \in Procs :
        (/\ DDGReplyStep(p)
         /\ ok(hist'[p].ddgReply)
         /\ \E i \in 1..Len(hist'[p].ddgReply.rows) : hist'[p].ddgReply.rows[i] # 0)
           => /\ duckDuckGoSuspendedUntil' = duckDuckGoSuspendedUntil
              /\ suspensionCount' <= suspensionCount ]_vars

\* C38: one call sends at most one request to DuckDuckGo and at most one to
\* Brave and is admitted by the request manager at most twice; a call whose
\* result comes from DuckDuckGo has sent nothing to Brave, and a call that
\* has its result or its error takes no further step but the return.
C38_AtMostOneRequestPerProvider ==
  [][ \A p \in Procs :
        /\ hist'[p].ddgRequests <= 1
        /\ hist'[p].braveRequests <= 1
        /\ hist'[p].admits <= 2
        /\ hist'[p].admits <= hist'[p].ddgRequests + hist'[p].braveRequests + 1
        /\ (pc'[p] = "done" /\ result'[p].searchProvider = "DuckDuckGo")
              => hist'[p].braveRequests = 0
        /\ (pc[p] \in { "done", "failed" } /\ pc'[p] # pc[p])
              => /\ pc'[p] = "idle"
                 /\ UNCHANGED << ledger, suspension, userAgentsSent >> ]_vars

\* a call is done after one request to each provider and two admissions
C38_Witness ==
  \E p \in Procs :
    /\ pc[p] = "done"
    /\ hist[p].ddgRequests = 1
    /\ hist[p].braveRequests = 1
    /\ hist[p].admits = 2

\* ---- queries with parentheses, with and without a preferred site ----

\* "js", "js)", "(js)" and "a)": the first three hold the keyword of the site
ReshapeQueries ==
  { << "j", "s" >>, << "j", "s", ")" >>, << "(", "j", "s", ")" >>, << "a", ")" >> }

\* no preferred_sites.json, or one or two sites with the keyword "JS"
ReshapeFiles ==
  { NoFile,
    [error |-> "", value |-> JArr(<< SiteJS("a") >>)],
    [error |-> "", value |-> JArr(<< SiteJS("a"), SiteJS("b") >>)] }

InitReshape == InitState /\ debug = FALSE /\ file \in ReshapeFiles /\ requestCount = 0

StartReshape(p) ==
  /\ Quiet
  /\ started < ReshapeMaxCalls
  /\ StartFrom(p, 1, ReshapeQueries)
  /\ args'[p].maxResults = Undefined

NextReshape ==
  \/ \E p \in Procs : StartReshape(p)
  \/ \E p \in Procs : CheckSuspension(p, debug)
  \/ \E p \in Procs : WakeMin(p, debug)
  \/ \E p \in Procs : Dispatch(p)
  \/ \E p \in Procs : ReplyDDGConc(p, debug)
  \/ \E p \in Procs : ReplyBraveConc(p, debug)
  \/ \E p \in Procs : Return(p)
  \/ TickTimer
  \/ TickExpire

SpecReshape == InitReshape /\ [][NextReshape]_vars

\* C39: the query sent to Brave is the caller's query, unchanged, followed,
\* when preferred sites matched, by a blank and the site: clauses in their
\* order, joined by " OR ", without the parentheses enhanceQuery put around
\* them; a query without a site: clause is sent as it is
C39_ReshapeOnlyDropsGroupParens ==
  \A p \in Procs :
    (pc[p] = "fetch" /\ frame[p].provider = "brave") =>
       LET m == getMatchingSites(sites, args[p].query)
       IN hist[p].searchQuery =
            IF m = <<>> THEN chars(args[p].query)
            ELSE chars(args[p].query) \o << " " >> \o chars(siteOperators(m))

\* ---- the search tool handler of index.ts around execute ----

\* variant: no try/catch around execute; the rejection reaches the caller
toolHandler_Rethrow(r) ==
  IF r.kind = "error"
  THEN [thrown |-> TRUE, content |-> <<>>]
  ELSE [thrown |-> FALSE, content |-> << [type |-> "text", text |-> << r >>] >>]

\* async (args) => { try { return await searchTool.execute(args) } catch ... }
\* on the settled execute r: what the handler hands to the protocol layer
toolHandler(r) ==
  [thrown |-> FALSE,
   content |-> << [type |-> "text",
                   text |-> IF r.kind = "error" THEN << "Error: ", r.message >>
                            ELSE << r >>] >>]

\* the handler returns: the slot is free and holds the tool response
ReturnHandler(p) ==
  /\ pc[p] \in {"done", "failed"}
  /\ pc' = [pc EXCEPT ![p] = "idle"]
  /\ args' = [args EXCEPT ![p] = NoArgs]
  /\ frame' = [frame EXCEPT ![p] = NoFrame]
  /\ result' = [result EXCEPT ![p] = toolHandler(result[p])]
  /\ hist' = [hist EXCEPT ![p] = NoHist]
  /\ stderr' = [stderr EXCEPT ![p] = FALSE]
  /\ UNCHANGED << now, suspension, ledger, started, userAgentsSent, debug, preferred, owner >>

StartHandler(p) == started < HandlerMaxCalls /\ StartSeq(p)

NextHandler ==
  \/ \E p \in Procs : StartHandler(p)
  \/ \E p \in Procs : CheckSuspension(p, debug)
  \/ \E p \in Procs : WakeRate(p, debug)
  \/ \E p \in Procs : WakeMin(p, debug)
  \/ \E p \in Procs : Dispatch(p)
  \/ \E p \in Procs : ReplyDDG(p, debug)
  \/ \E p \in Procs : ReplyBrave(p, debug)
  \/ \E p \in Procs : ReturnHandler(p)
  \/ TickTimer
  \/ TickExpire

SpecHandler == Init /\ [][NextHandler]_vars

\* the three errors execute throws
ExecuteErrors == { ErrQuery, ErrMax, ErrAll }

\* C40: whenever execute fails, the handler of the search tool returns, not
\* throws: its response has one content item, of type text, whose text is
\* 'Error: ' followed by the message of the error
C40_HandlerReturnsErrorText ==
  [][ \A p \in Procs :
        (pc[p] = "failed" /\ pc'[p] = "idle")
           => /\ result[p].message \in ExecuteErrors
              /\ ~result'[p].thrown
              /\ Len(result'[p].content) = 1
              /\ result'[p].content[1].type = "text"
              /\ result'[p].content[1].text = << "Error: ", result[p].message >> ]_vars

\* the handler has answered a call that failed on both providers
C40_Witness ==
  \E p \in Procs :
    /\ pc[p] = "idle"
    /\ result[p] = [thrown |-> FALSE,
                    content |-> << [type |-> "text", text |-> << "Error: ", ErrAll >>] >>]

====
